---- MODULE Spec2Model ----
(***************************************************************************)
(* Model of the workflow "show" endpoint of iwf-web                        *)
(* (src/app/api/v1/workflow/show/route.ts, handleWorkflowShowRequest):     *)
(* the single forward pass that turns the raw Temporal history of a        *)
(* workflow into the list of iWF history events, with the upstream calls   *)
(* that precede it, and the status mapper mapTemporalStatus                *)
(* (src/app/api/v1/workflow/utils.ts) with its two callers.                *)
(*                                                                         *)
(* Sequences are 1-based here and 0-based in the source: the raw event     *)
(* rawHistories.events[i] is events[i + 1], and the trace record           *)
(* historyEvents[k] of the source is At(historyEvents, k).                 *)
(***************************************************************************)
EXTENDS Integers, Sequences, FiniteSets, TLC

\* Bounds of the model.
MaxEvents == 4      \* raw events after the workflow-start event
MaxOffers == 2      \* origins offered after the seed (SpecOffer only)

\* Values the decoded payloads are drawn from.
StateIds == {"A", "B"}
StateExecutionIds == {"A-1", "A-2"}
OptionValues == {"undefined", "o1"}

VARIABLES
    pc,                                \* position of the request handler
    workflowInfo,                      \* workflow.workflowExecutionInfo of the describe call
    calls,                             \* upstream calls made by the request, and the one that failed
    events,                            \* rawHistories.events, as far as the pass has read it
    fromStateLookup,                   \* stateId -> queue of pending origins
    historyActivityIdLookup,           \* activityId -> trace index
    stateExecutionIdToWaitUntilIndex,  \* stateExecutionId -> index of the wait record
    historyEvents,                     \* the output trace
    response,                          \* the response of the request
    trail,                             \* per raw event: the branch the pass took on it
    producedBy,                        \* per trace record: the raw index that appended it
    offered,                           \* stateId -> every origin registered for it, in order
    mapped,                            \* the last call of the status mapper: caller, argument, result
    parked,                            \* the request that waits at an await while another one runs
    finished,                          \* the requests answered before the running one
    currentPage,                       \* search page: number of the page shown
    pageSize,                          \* search page: entries asked for per page
    nextPageToken,                     \* search page: token of the page after the one shown
    hasMoreResults,                    \* search page: a next page exists
    pageHistory,                       \* search page: per page, the token it is fetched with
    results,                           \* search page: the entries shown, by the search that gave them
    loading,                           \* search page: the spinner is shown instead of the list
    error,                             \* search page: the error message shown
    inFlight,                          \* search page: the search requests sent and not answered
    issued,                            \* search page: the calls of fetchWorkflows, in order
    handled                            \* search page: the last handler that ran

\* The state of the search page
pageVars == <<currentPage, pageSize, nextPageToken, hasMoreResults,
              pageHistory, results, loading, error, inFlight, issued,
              handled>>

vars == <<pc, workflowInfo, calls, events, fromStateLookup,
          historyActivityIdLookup, stateExecutionIdToWaitUntilIndex,
          historyEvents, response, trail, producedBy, offered, mapped,
          parked, finished, pageVars>>

\* What the steps of the pass leave alone: the answers of the upstream calls
\* and everything outside the running request
outside == <<mapped, parked, finished, pageVars>>

beforePass == <<workflowInfo, calls, mapped, parked, finished, pageVars>>

\* ------------------------------------------------------------------------
\* JavaScript Map objects.  A Map has its entries (set/get/has/delete) and,
\* like every object, its own properties (map[key] = value).  The two are
\* separate stores.
EmptyFcn == [x \in {} |-> x]

NewMap == [entries |-> EmptyFcn, props |-> EmptyFcn]

MapHas(m, k) == k \in DOMAIN m.entries

MapGet(m, k) == m.entries[k]

PropSet(m, k, v) ==
    [m EXCEPT !.props = [x \in (DOMAIN m.props) \cup {k} |->
                            IF x = k THEN v ELSE m.props[x]]]

\* fromStateLookup is only used through get/set/delete: it is modelled by
\* its entries alone, a function whose domain is the set of present keys.
LookupDelete(m, k) == [x \in (DOMAIN m) \ {k} |-> m[x]]

LookupSet(m, k, v) == [x \in (DOMAIN m) \cup {k} |-> IF x = k THEN v ELSE m[x]]

\* Variant: the record is put in front (unshift)
PushFront(seq, x) == <<x>> \o seq

\* Array.prototype.push
Push(seq, x) == Append(seq, x)

\* historyEvents[k] of the source (0-based)
At(seq, k) == seq[k + 1]

\* ------------------------------------------------------------------------
\* Origin of the start state
StartIndex == -1

\* Variant: the seed points at trace index 0 instead of -1
SeedLookupFromFirstRecord(startStateId, stateOptions) ==
    LookupSet(EmptyFcn, startStateId, <<[index |-> 0, option |-> stateOptions]>>)

SeedLookup(startStateId, stateOptions) ==
    LookupSet(EmptyFcn, startStateId,
              <<[index |-> StartIndex, option |-> stateOptions]>>)

\* lookup = fromStateLookup.get(stateId); from = lookup[0] throws a
\* TypeError when lookup is undefined.
LookupThrows(m, stateId) == stateId \notin DOMAIN m

\* Variant: the newest origin is read instead of the oldest
TakeFromTail(m, stateId) == m[stateId][Len(m[stateId])]

\* from = lookup[0]
TakeFrom(m, stateId) == Head(m[stateId])

\* Variant: the key is set to the shortened queue, empty or not
ShiftKeepsKey(m, stateId) == LookupSet(m, stateId, Tail(m[stateId]))

\* lookup.shift(); the key is deleted when the queue became empty and set
\* to the shortened queue otherwise
ShiftOrDelete(m, stateId) ==
    IF Len(Tail(m[stateId])) = 0
    THEN LookupDelete(m, stateId)
    ELSE LookupSet(m, stateId, Tail(m[stateId]))

\* Variant: the wait branch reads the origin and leaves it in the queue
WaitUntilShiftMissing(m, stateId) == m

\* the shift of the StateApiWaitUntil branch
WaitUntilShift(m, stateId) == ShiftOrDelete(m, stateId)

\* Variant: the execute branch reads the origin and leaves it in the queue
ExecuteShiftMissing(m, stateId) == m

\* the shift of the StateApiExecute branch
ExecuteShift(m, stateId) == ShiftOrDelete(m, stateId)

\* ------------------------------------------------------------------------
\* The status mapper (utils.ts).  Its strings are sequences of characters.
LowerCaseLetters ==
    <<"a", "b", "c", "d", "e", "f", "g", "h", "i", "j", "k", "l",
      "m", "n", "o", "p", "q", "r", "s", "t", "u", "v", "w", "x",
      "y", "z">>

UpperCaseLetters ==
    <<"A", "B", "C", "D", "E", "F", "G", "H", "I", "J", "K", "L",
      "M", "N", "O", "P", "Q", "R", "S", "T", "U", "V", "W", "X",
      "Y", "Z">>

WhiteSpace == {" ", "\t"}

\* Variant: the letters keep their case
toUpperCaseMissing(str) == str

\* String.prototype.toUpperCase
toUpperCase(str) ==
    [i \in 1..Len(str) |->
        IF \E n \in 1..Len(LowerCaseLetters) : LowerCaseLetters[n] = str[i]
        THEN UpperCaseLetters[CHOOSE n \in 1..Len(LowerCaseLetters) :
                                  LowerCaseLetters[n] = str[i]]
        ELSE str[i]]

\* String.prototype.trim: the white space at both ends is removed
RECURSIVE trimStart(_)
trimStart(str) ==
    IF Len(str) > 0 /\ str[1] \in WhiteSpace
    THEN trimStart(SubSeq(str, 2, Len(str)))
    ELSE str

RECURSIVE trimEnd(_)
trimEnd(str) ==
    IF Len(str) > 0 /\ str[Len(str)] \in WhiteSpace
    THEN trimEnd(SubSeq(str, 1, Len(str) - 1))
    ELSE str

trim(str) == trimEnd(trimStart(str))

\* String.prototype.replace(pattern, '') with a string pattern: the first
\* occurrence of the pattern, wherever it is, is removed
Occurrences(str, pattern) ==
    {i \in 1..(Len(str) - Len(pattern) + 1) :
        SubSeq(str, i, i + Len(pattern) - 1) = pattern}

replace(str, pattern) ==
    IF Occurrences(str, pattern) = {}
    THEN str
    ELSE LET i == CHOOSE o \in Occurrences(str, pattern) :
                      \A q \in Occurrences(str, pattern) : o <= q
         IN  SubSeq(str, 1, i - 1) \o SubSeq(str, i + Len(pattern), Len(str))

StatusPrefix ==
    <<"W", "O", "R", "K", "F", "L", "O", "W", "_", "E", "X", "E",
      "C", "U", "T", "I", "O", "N", "_", "S", "T", "A", "T", "U",
      "S", "_">>

\* The cases of the switch: the string matched and the label returned
StatusCases ==
    {[match |-> <<"R", "U", "N", "N", "I", "N", "G">>,
      label |-> "RUNNING"],
     [match |-> <<"C", "O", "M", "P", "L", "E", "T", "E", "D">>,
      label |-> "COMPLETED"],
     [match |-> <<"F", "A", "I", "L", "E", "D">>,
      label |-> "FAILED"],
     [match |-> <<"C", "A", "N", "C", "E", "L", "E", "D">>,
      label |-> "CANCELED"],
     [match |-> <<"T", "E", "R", "M", "I", "N", "A", "T", "E", "D">>,
      label |-> "TERMINATED"],
     [match |-> <<"C", "O", "N", "T", "I", "N", "U", "E", "D", "_", "A", "S",
                  "_", "N", "E", "W">>,
      label |-> "CONTINUED_AS_NEW"],
     [match |-> <<"T", "I", "M", "E", "D", "_", "O", "U", "T">>,
      label |-> "TIMEOUT"],
     [match |-> <<"1">>,
      label |-> "RUNNING"],
     [match |-> <<"2">>,
      label |-> "COMPLETED"],
     [match |-> <<"3">>,
      label |-> "FAILED"],
     [match |-> <<"4">>,
      label |-> "CANCELED"],
     [match |-> <<"5">>,
      label |-> "TERMINATED"],
     [match |-> <<"6">>,
      label |-> "CONTINUED_AS_NEW"],
     [match |-> <<"7">>,
      label |-> "TIMEOUT"]}

Returned(label) == [threw |-> FALSE, label |-> label]

Thrown == [threw |-> TRUE, label |-> "none"]

\* Variant: the default case answers RUNNING
DefaultCaseRunning(statusWithoutPrefix) == Returned("RUNNING")

\* default: throw new Error(`Unknown workflow status: ...`)
DefaultCase(statusWithoutPrefix) == Thrown

\* mapTemporalStatus.  Its callers pass a string, for which (status || '')
\* is the string itself.
mapTemporalStatus(status) ==
    LET normalizedStatus == trim(toUpperCase(status))
        statusWithoutPrefix == replace(normalizedStatus, StatusPrefix)
    IN  IF \E c \in StatusCases : c.match = statusWithoutPrefix
        THEN Returned((CHOOSE c \in StatusCases :
                           c.match = statusWithoutPrefix).label)
        ELSE DefaultCase(statusWithoutPrefix)

\* The status field of a workflow execution info of the backend: a number of
\* the WorkflowExecutionStatus enumeration, or missing
Undefined == [set |-> FALSE, value |-> 0]

Number(n) == [set |-> TRUE, value |-> n]

StatusCodes == 0..8

BackendStatuses == {Undefined} \cup {Number(n) : n \in StatusCodes}

\* JavaScript truthiness of such a value
Truthy(v) == v.set /\ v.value # 0

DecimalDigits == <<"0", "1", "2", "3", "4", "5", "6", "7", "8", "9">>

\* String(n) of a natural number
RECURSIVE NumberToString(_)
NumberToString(n) ==
    IF n < Len(DecimalDigits)
    THEN <<DecimalDigits[n + 1]>>
    ELSE NumberToString(n \div Len(DecimalDigits))
             \o <<DecimalDigits[(n % Len(DecimalDigits)) + 1]>>

\* String(execution.status || 1) of the list route
ListStatusName(status) ==
    NumberToString(IF Truthy(status) THEN status.value ELSE 1)

\* convertTemporalWorkflow: workflowStatus of an entry of the list
ListWorkflowStatus(status) == mapTemporalStatus(ListStatusName(status))

\* Variant: a workflow without a status code is reported as running
ShowStatusDefaulting(statusCode) ==
    IF Truthy(statusCode)
    THEN mapTemporalStatus(NumberToString(statusCode.value))
    ELSE Returned("RUNNING")

\* statusCode ? mapTemporalStatus(String(statusCode)) : undefined of the
\* show route
ShowStatus(statusCode) ==
    IF Truthy(statusCode)
    THEN mapTemporalStatus(NumberToString(statusCode.value))
    ELSE Returned("undefined")

\* What a call of the mapper by a caller gave: the backend status the caller
\* had, the string it passed, and the result
ListMapped(status) ==
    [caller |-> "list", code |-> status, arg |-> ListStatusName(status),
     threw |-> ListWorkflowStatus(status).threw,
     label |-> ListWorkflowStatus(status).label]

ShowMapped(statusCode) ==
    [caller |-> "show", code |-> statusCode,
     arg |-> IF Truthy(statusCode)
             THEN NumberToString(statusCode.value) ELSE <<>>,
     threw |-> ShowStatus(statusCode).threw,
     label |-> ShowStatus(statusCode).label]

\* The status expression of the show route for each status code of the
\* backend, computed once
ShowMappedOf == [statusCode \in BackendStatuses |-> ShowMapped(statusCode)]

DirectMapped(str) ==
    [caller |-> "direct", code |-> Undefined, arg |-> str,
     threw |-> mapTemporalStatus(str).threw,
     label |-> mapTemporalStatus(str).label]

\* ------------------------------------------------------------------------
\* Responses

\* Variant: the error response carries the records appended so far
ErrorResponsePartial(msg) ==
    [httpStatus |-> 400,
     detail |-> "Error retrieving workflow details",
     error |-> msg,
     errorType |-> "TEMPORAL_API_ERROR",
     historyEvents |-> historyEvents]

\* The answer of the catch block
ErrorResponse(msg) ==
    [httpStatus |-> 400,
     detail |-> "Error retrieving workflow details",
     error |-> msg,
     errorType |-> "TEMPORAL_API_ERROR"]

\* The answer to a workflow without the IwfWorkflowType search attribute
NotIwfResponse ==
    [httpStatus |-> 400,
     detail |-> "Not an iWF workflow execution",
     error |-> "unsupported temporal workflow type",
     errorType |-> "TEMPORAL_API_ERROR"]

OkResponse(status, input, trace) ==
    [httpStatus |-> 200, status |-> status, input |-> input,
     historyEvents |-> trace]

NoResponse == [httpStatus |-> 0]

TypeErrorUndefined == "Cannot read properties of undefined (reading '0')"

DecodeError == "Cannot read properties of undefined (reading 'payloads')"

InfoNotFound == "Workflow execution info not found in the response"

UnknownStatus == "Unknown workflow status"

\* error.message of the error an upstream call rejects with
UpstreamCalls == {"connect", "describe", "fetchHistory"}

UpstreamError(call) ==
    [c \in UpstreamCalls |->
        CASE c = "connect" -> "connect: upstream error"
          [] c = "describe" -> "describe: upstream error"
          [] c = "fetchHistory" -> "fetchHistory: upstream error"][call]

\* ------------------------------------------------------------------------
\* Raw index i of the event the loop reads next.  The model gives the event
\* the time i and, when it schedules an activity, the activity id i, so
\* that the activity ids of a history are distinct.
NextRawIndex == Len(events)

\* workflow.workflowExecutionInfo: missing, or with its status and with or
\* without the IwfWorkflowType search attribute
NoInfo == [present |-> FALSE, iwfType |-> FALSE, status |-> Undefined]

\* The statuses of the described workflows: missing, unspecified, running
\* and a code the mapper has no case for.  SpecStatus goes through every
\* code.
DescribedStatuses == {Undefined, Number(0), Number(1), Number(8)}

WorkflowInfos ==
    {NoInfo} \cup
    {[present |-> TRUE, iwfType |-> t, status |-> st] :
        t \in BOOLEAN, st \in DescribedStatuses}

NoCalls ==
    [connect |-> 0, describe |-> 0, fetchHistory |-> 0, failed |-> "none",
     workflowId |-> "none"]

\* The handler was called, with a workflowId
HandlerCalls == [NoCalls EXCEPT !.workflowId = "given"]

Called(call) == [calls EXCEPT ![call] = @ + 1]

NotMapped ==
    [caller |-> "none", code |-> Undefined, arg |-> <<>>,
     threw |-> FALSE, label |-> "none"]

\* The search page before it is opened
NoResults == [of |-> 0, entries |-> "none"]

PageNotOpen ==
    /\ currentPage = 1
    /\ pageSize = 20
    /\ nextPageToken = ""
    /\ hasMoreResults = FALSE
    /\ pageHistory = <<"">>
    /\ results = NoResults
    /\ loading = FALSE
    /\ error = ""
    /\ inFlight = {}
    /\ issued = <<>>
    /\ handled = "none"

\* No request has reached the show route
HandlerIdle ==
    /\ pc = "request"
    /\ workflowInfo = NoInfo
    /\ calls = NoCalls
    /\ mapped = NotMapped
    /\ parked = <<>>
    /\ finished = <<>>
    /\ events = <<>>
    /\ fromStateLookup = EmptyFcn
    /\ historyActivityIdLookup = NewMap
    /\ stateExecutionIdToWaitUntilIndex = NewMap
    /\ historyEvents = <<>>
    /\ response = NoResponse
    /\ trail = <<>>
    /\ producedBy = <<>>
    /\ offered = [s \in StateIds |-> <<>>]

Init == HandlerIdle /\ PageNotOpen

passVars == <<events, fromStateLookup, historyActivityIdLookup,
              stateExecutionIdToWaitUntilIndex, historyEvents, trail,
              producedBy, offered>>

\* Variant: the rejected call is made again
UpstreamFailureRetried(call) ==
    /\ calls' = [Called(call) EXCEPT !.failed = call]
    /\ UNCHANGED <<pc, response, workflowInfo, passVars, outside>>

\* An awaited upstream call rejects: the catch block answers 400 with the
\* message of the error
UpstreamFailure(call) ==
    /\ calls' = [Called(call) EXCEPT !.failed = call]
    /\ pc' = "done"
    /\ response' = ErrorResponse(UpstreamError(call))
    /\ UNCHANGED <<workflowInfo, passVars, outside>>

\* The answers of GET and POST that do not come from the handler
MissingParameterResponse ==
    [httpStatus |-> 400,
     detail |-> "Missing required query parameter: workflowId"]

MissingFieldResponse ==
    [httpStatus |-> 400, detail |-> "Missing required field: workflowId"]

PostFailedResponse ==
    [httpStatus |-> 500,
     detail |-> "Failed to process POST request",
     error |-> "Unexpected token in JSON"]

\* The requests: with or without a workflowId and, for POST, with a body
\* that is not JSON
RequestKinds == {"given", "missing", "unparsed"}

\* Variant: the workflowId is not looked at
MissingWorkflowIdIgnored(kind) == FALSE

\* if (!workflowId), if (!body.workflowId)
MissingWorkflowId(kind) == kind = "missing"

\* The request is answered without a call of the handler, or the handler
\* is called
Received(kind, rejection) ==
    /\ calls' = [calls EXCEPT !.workflowId = kind]
    /\ IF kind = "unparsed"
       THEN pc' = "done" /\ response' = PostFailedResponse
       ELSE IF MissingWorkflowId(kind)
       THEN pc' = "done" /\ response' = rejection
       ELSE pc' = "connect" /\ UNCHANGED response
    /\ UNCHANGED <<workflowInfo, passVars, outside>>

\* export async function GET
GET ==
    /\ pc = "request"
    /\ \E kind \in RequestKinds \ {"unparsed"} :
          Received(kind, MissingParameterResponse)

\* export async function POST: await request.json() throws on a body that
\* is not JSON, and the catch block of POST answers 500
POST ==
    /\ pc = "request"
    /\ \E kind \in RequestKinds : Received(kind, MissingFieldResponse)

\* await Connection.connect(...)
Connect ==
    /\ pc = "connect"
    /\ calls' = Called("connect")
    /\ pc' = "describe"
    /\ UNCHANGED <<response, workflowInfo, passVars, outside>>

ConnectFails == pc = "connect" /\ UpstreamFailure("connect")

\* Variant: a workflow without the attribute is taken as an iWF workflow
NotIwfIgnored(info) == FALSE

\* searchAttributes.IwfWorkflowType is not set
NotIwf(info) == ~info.iwfType

\* await describeWorkflowExecution(...), the check of workflowInfo and of
\* the IwfWorkflowType search attribute
Describe ==
    /\ pc = "describe"
    /\ calls' = Called("describe")
    /\ \E info \in WorkflowInfos :
        /\ workflowInfo' = info
        /\ IF ~info.present
           THEN pc' = "done" /\ response' = ErrorResponse(InfoNotFound)
           ELSE IF NotIwf(info)
           THEN pc' = "done" /\ response' = NotIwfResponse
           ELSE pc' = "fetch" /\ UNCHANGED response
    /\ UNCHANGED <<passVars, outside>>

DescribeFails == pc = "describe" /\ UpstreamFailure("describe")

FetchHistoryFails == pc = "fetch" /\ UpstreamFailure("fetchHistory")

\* Variant: the trace is an array of the module, not made anew by a request
StaleTrace == historyEvents

\* const historyEvents = []
FreshTrace == <<>>

\* await handle.fetchHistory(), the decoding of the start input and the
\* creation of the three maps and of the output trace
FetchHistory ==
    /\ pc = "fetch"
    /\ calls' = Called("fetchHistory")
    /\ \E start \in StateIds, opt \in OptionValues :
        /\ events' = <<[type |-> "WorkflowExecutionStarted",
                        startStateId |-> start,
                        stateOptions |-> opt,
                        time |-> 0]>>
        /\ fromStateLookup' = SeedLookup(start, opt)
        /\ offered' = [s \in StateIds |->
                         IF s = start THEN SeedLookup(start, opt)[start] ELSE <<>>]
    /\ historyActivityIdLookup' = NewMap
    /\ stateExecutionIdToWaitUntilIndex' = NewMap
    /\ historyEvents' = FreshTrace
    /\ trail' = <<[branch |-> "start", threw |-> FALSE]>>
    /\ producedBy' = <<>>
    /\ pc' = "loop"
    /\ UNCHANGED <<response, workflowInfo, outside>>

\* A history ends with the event that closes the workflow, if it has one.
Closed ==
    \E j \in 1..Len(events) :
        events[j].type \in {"WorkflowExecutionCompleted", "WorkflowExecutionFailed"}

\* The loop reads one more event: i < rawHistories.events.length
CanRead == pc = "loop" /\ Len(events) - 1 < MaxEvents /\ ~Closed

ScheduledEvent(activityType, stateId, stateExecutionId) ==
    [type |-> "ActivityTaskScheduled",
     activityType |-> activityType,
     activityId |-> NextRawIndex,
     stateId |-> stateId,
     stateExecutionId |-> stateExecutionId,
     input |-> "in",
     time |-> NextRawIndex]

\* An event the pass reads and leaves without touching the maps or the
\* trace: the empty else branch and the branches that only log.
LogOnly(e) ==
    /\ events' = Append(events, e)
    /\ trail' = Append(trail, [branch |-> "log", threw |-> FALSE])
    /\ UNCHANGED <<pc, response, offered, fromStateLookup,
                   historyActivityIdLookup, stateExecutionIdToWaitUntilIndex,
                   historyEvents, producedBy, beforePass>>

\* Variant: the error is swallowed and the event skipped
ThrowSwallowed(e, branch, msg) == LogOnly(e)

\* The catch block: the pass is abandoned and the request answered 400
Throw(e, branch, msg) ==
    /\ events' = Append(events, e)
    /\ trail' = Append(trail, [branch |-> branch, threw |-> TRUE])
    /\ pc' = "done"
    /\ response' = ErrorResponse(msg)
    /\ UNCHANGED <<fromStateLookup, historyActivityIdLookup,
                   stateExecutionIdToWaitUntilIndex, historyEvents,
                   producedBy, offered, beforePass>>

\* Variant: the index is read after the record was pushed
EventIndexAfterPush == Len(historyEvents) + 1

\* const eventIndex = historyEvents.length
EventIndex == Len(historyEvents)

WaitUntilRecord(e, from) ==
    [eventType |-> "StateWaitUntil",
     stateExecutionId |-> e.stateExecutionId,
     stateId |-> e.stateId,
     input |-> e.input,
     fromEventId |-> from.index,
     stateOptions |-> from.option,
     activityId |-> e.activityId,
     firstAttemptStartedTimestamp |-> e.time]

ExecuteRecord(e, fromEvent, stateOption) ==
    [eventType |-> "StateExecute",
     stateExecutionId |-> e.stateExecutionId,
     stateId |-> e.stateId,
     input |-> e.input,
     fromEventId |-> fromEvent,
     stateOptions |-> stateOption,
     activityId |-> e.activityId,
     firstAttemptStartedTimestamp |-> e.time]

\* activityTaskScheduled, activityType StateApiWaitUntil
WaitUntilScheduled(e) ==
    IF LookupThrows(fromStateLookup, e.stateId)
    THEN Throw(e, "tracker", TypeErrorUndefined)
    ELSE
        /\ events' = Append(events, e)
        /\ trail' = Append(trail, [branch |-> "tracker", threw |-> FALSE])
        /\ fromStateLookup' = WaitUntilShift(fromStateLookup, e.stateId)
        /\ historyActivityIdLookup' =
              PropSet(historyActivityIdLookup, e.activityId, EventIndex)
        /\ stateExecutionIdToWaitUntilIndex' =
              PropSet(stateExecutionIdToWaitUntilIndex, e.stateExecutionId,
                      EventIndex)
        /\ historyEvents' =
              Push(historyEvents,
                   WaitUntilRecord(e, TakeFrom(fromStateLookup, e.stateId)))
        /\ producedBy' = Push(producedBy, NextRawIndex)
        /\ UNCHANGED <<pc, response, offered, beforePass>>

\* activityTaskScheduled, activityType StateApiExecute
ExecuteScheduled(e) ==
    IF MapHas(stateExecutionIdToWaitUntilIndex, e.stateExecutionId)
    THEN
        \* from a waitUntil: its index and the options of its record
        LET fromEvent == MapGet(stateExecutionIdToWaitUntilIndex, e.stateExecutionId)
        IN  /\ events' = Append(events, e)
            /\ trail' = Append(trail, [branch |-> "viaWait", threw |-> FALSE])
            /\ historyActivityIdLookup' =
                  PropSet(historyActivityIdLookup, e.activityId, EventIndex)
            /\ historyEvents' =
                  Push(historyEvents,
                       ExecuteRecord(e, fromEvent,
                                     At(historyEvents, fromEvent).stateOptions))
            /\ producedBy' = Push(producedBy, NextRawIndex)
            /\ UNCHANGED <<pc, response, offered, fromStateLookup,
                           stateExecutionIdToWaitUntilIndex, beforePass>>
    ELSE IF LookupThrows(fromStateLookup, e.stateId)
    THEN Throw(e, "tracker", TypeErrorUndefined)
    ELSE
        LET from == TakeFrom(fromStateLookup, e.stateId)
        IN  /\ events' = Append(events, e)
            /\ trail' = Append(trail, [branch |-> "tracker", threw |-> FALSE])
            /\ fromStateLookup' = ExecuteShift(fromStateLookup, e.stateId)
            /\ historyActivityIdLookup' =
                  PropSet(historyActivityIdLookup, e.activityId, EventIndex)
            /\ historyEvents' =
                  Push(historyEvents, ExecuteRecord(e, from.index, from.option))
            /\ producedBy' = Push(producedBy, NextRawIndex)
            /\ UNCHANGED <<pc, response, offered,
                           stateExecutionIdToWaitUntilIndex, beforePass>>

\* Variant: an activity type the pass does not know is an error
OtherScheduledThrows(e) == Throw(e, "other", "unknown activity type")

\* activityTaskScheduled of any other activity type (continueAsNew, rpc locking)
OtherScheduled(e) == LogOnly(e)

\* Variant: the record of the activity is looked up and read
ActivityCompletedStrict(e) ==
    IF e.scheduledEventId \in DOMAIN historyActivityIdLookup.entries
    THEN LogOnly(e)
    ELSE Throw(e, "completed", TypeErrorUndefined)

\* activityTaskCompleted
ActivityCompleted(e) == LogOnly(e)

\* activityTaskFailed
ActivityFailed(e) == LogOnly(e)

\* Variant: the event is recorded as a marker entry of the trace
MarkerEventRecorded(e) ==
    /\ events' = Append(events, e)
    /\ trail' = Append(trail, [branch |-> "log", threw |-> FALSE])
    /\ historyEvents' = Push(historyEvents, [eventType |-> e.type, time |-> e.time])
    /\ producedBy' = Push(producedBy, NextRawIndex)
    /\ UNCHANGED <<pc, response, offered, fromStateLookup,
                   historyActivityIdLookup, stateExecutionIdToWaitUntilIndex,
                   beforePass>>

\* workflowExecutionSignaled, workflowExecutionCompleted, workflowExecutionFailed
MarkerEvent(e) == LogOnly(e)

\* Raw indexes of the activities that are scheduled and not yet closed: a
\* history closes an activity once
PendingActivities ==
    {j \in 1..(Len(events) - 1) :
        /\ events[j + 1].type = "ActivityTaskScheduled"
        /\ \A c \in 1..Len(events) :
              events[c].type \in {"ActivityTaskCompleted", "ActivityTaskFailed"}
                  => events[c].scheduledEventId # j}

ClosingEvent(type, j) ==
    [type |-> type, scheduledEventId |-> j, time |-> NextRawIndex]

PlainEvent(type) == [type |-> type, time |-> NextRawIndex]

MarkerTypes == {"WorkflowExecutionSignaled", "WorkflowExecutionCompleted",
                "WorkflowExecutionFailed"}

\* A scheduled event whose input payloads cannot be decoded: the pass
\* throws when it decodes them, before it looks at the activity type
UndecodableEvent ==
    [type |-> "ActivityTaskScheduled",
     activityType |-> "Unread",
     activityId |-> NextRawIndex,
     time |-> NextRawIndex]

UndecodableScheduled(e) == Throw(e, "decode", DecodeError)

\* Variant: the loop does not end when the events are read
LoopExitNever == pc = "loop" /\ UNCHANGED vars

\* i = rawHistories.events.length: the response is built, the status of the
\* workflow mapped; an error of the mapper goes to the catch block
LoopExit ==
    /\ pc = "loop"
    /\ pc' = "done"
    /\ LET shown == ShowMappedOf[workflowInfo.status]
       IN  /\ response' = IF shown.threw
                          THEN ErrorResponse(UnknownStatus)
                          ELSE OkResponse(shown.label, events[1], historyEvents)
           /\ mapped' = shown
    /\ UNCHANGED <<passVars, workflowInfo, calls, parked, finished, pageVars>>

ReadWaitUntil ==
    \E s \in StateIds, se \in StateExecutionIds :
        CanRead /\ WaitUntilScheduled(ScheduledEvent("StateApiWaitUntil", s, se))

ReadExecute ==
    \E s \in StateIds, se \in StateExecutionIds :
        CanRead /\ ExecuteScheduled(ScheduledEvent("StateApiExecute", s, se))

ReadOtherScheduled ==
    CanRead /\ OtherScheduled(ScheduledEvent("Other", "A", "A-1"))

ReadCompleted ==
    \E j \in PendingActivities :
        CanRead /\ ActivityCompleted(ClosingEvent("ActivityTaskCompleted", j))

ReadFailed ==
    \E j \in PendingActivities :
        CanRead /\ ActivityFailed(ClosingEvent("ActivityTaskFailed", j))

ReadMarker ==
    \E t \in MarkerTypes : CanRead /\ MarkerEvent(PlainEvent(t))

ReadUndecodable == CanRead /\ UndecodableScheduled(UndecodableEvent)

Next ==
    \/ GET
    \/ POST
    \/ Connect
    \/ ConnectFails
    \/ Describe
    \/ DescribeFails
    \/ FetchHistory
    \/ FetchHistoryFails
    \/ ReadUndecodable
    \/ ReadWaitUntil
    \/ ReadExecute
    \/ ReadOtherScheduled
    \/ ReadCompleted
    \/ ReadFailed
    \/ ReadMarker
    \/ LoopExit

Spec == Init /\ [][Next]_vars

\* ------------------------------------------------------------------------
\* The status mapper on its own and under its two callers.  The strings it
\* is given: the strings of the switch and others, in upper and lower case,
\* with and without the prefix and white space around them.
toLowerCase(str) ==
    [i \in 1..Len(str) |->
        IF \E n \in 1..Len(UpperCaseLetters) : UpperCaseLetters[n] = str[i]
        THEN LowerCaseLetters[CHOOSE n \in 1..Len(UpperCaseLetters) :
                                  UpperCaseLetters[n] = str[i]]
        ELSE str[i]]

\* A string in mixed case: every second letter in lower case
AlternateCase(str) ==
    [i \in 1..Len(str) |->
        IF i % 2 = 0 THEN toLowerCase(<<str[i]>>)[1] ELSE str[i]]

OtherNames ==
    {<<>>, <<"0">>, <<"8">>, <<"9">>, <<"9", "9">>, <<"1", "2">>,
     <<"T", "I", "M", "E", "O", "U", "T">>,
     <<"P", "A", "U", "S", "E", "D">>,
     <<"U", "N", "S", "P", "E", "C", "I", "F", "I", "E", "D">>}

StatusNames ==
    {c.match : c \in StatusCases} \cup OtherNames

Pads == {<<>>, <<" ">>}

StatusInputs ==
    {a \o p \o n \o z :
        a \in Pads,
        p \in {<<>>, StatusPrefix, toLowerCase(StatusPrefix),
                AlternateCase(StatusPrefix)},
        n \in StatusNames \cup {toLowerCase(m) : m \in StatusNames}
                          \cup {AlternateCase(m) : m \in StatusNames},
        z \in Pads}
    \cup {n \o StatusPrefix : n \in StatusNames}

ListedStatuses == BackendStatuses \cup {Number(99)}

MapString ==
    /\ mapped = NotMapped
    /\ \E str \in StatusInputs : mapped' = DirectMapped(str)
    /\ UNCHANGED <<pc, response, workflowInfo, calls, passVars, parked, finished,
                   pageVars>>

\* An execution of the answer of listWorkflowExecutions is converted
ListExecution ==
    /\ mapped = NotMapped
    /\ \E status \in ListedStatuses : mapped' = ListMapped(status)
    /\ UNCHANGED <<pc, response, workflowInfo, calls, passVars, parked, finished,
                   pageVars>>

\* The show response is built for a described workflow
ShowExecution ==
    /\ mapped = NotMapped
    /\ \E status \in ListedStatuses : mapped' = ShowMapped(status)
    /\ UNCHANGED <<pc, response, workflowInfo, calls, passVars, parked, finished,
                   pageVars>>

NextStatus == MapString \/ ListExecution \/ ShowExecution

SpecStatus == Init /\ [][NextStatus]_vars

\* ------------------------------------------------------------------------
\* The Origin Tracker's offer (spec section 4.1): when the outcome of a
\* record names a next state, an origin pointing at that record is appended
\* to the queue of that state.  The source has no such step; SpecOffer adds
\* it to the pass, after the completion of an execute activity, so that
\* queues of several origins exist.
DecidingRecords ==
    {k \in 0..(Len(historyEvents) - 1) :
        /\ At(historyEvents, k).eventType = "StateExecute"
        /\ events[Len(events)].type = "ActivityTaskCompleted"
        /\ events[Len(events)].scheduledEventId = At(producedBy, k)}

Offer ==
    /\ pc = "loop"
    /\ Len(offered["A"]) + Len(offered["B"]) - 1 < MaxOffers
    /\ \E s \in StateIds, k \in DecidingRecords, opt \in OptionValues :
        LET origin == [index |-> k, option |-> opt]
        IN  /\ fromStateLookup' =
                 LookupSet(fromStateLookup, s,
                           IF s \in DOMAIN fromStateLookup
                           THEN Append(fromStateLookup[s], origin)
                           ELSE <<origin>>)
            /\ offered' = [offered EXCEPT ![s] = Append(@, origin)]
    /\ UNCHANGED <<pc, events, historyActivityIdLookup,
                   stateExecutionIdToWaitUntilIndex, historyEvents, response,
                   trail, producedBy, beforePass>>

\* SpecOffer follows the requests for an iWF workflow that is running and
\* whose history has the events of state activities: wait and execute
\* activities scheduled, and activities completed
RunningInfo == [present |-> TRUE, iwfType |-> TRUE, status |-> Number(1)]

StateActivityEvent(e) ==
    \/ e.type = "ActivityTaskCompleted"
    \/ /\ e.type = "ActivityTaskScheduled"
       /\ e.activityType \in {"StateApiWaitUntil", "StateApiExecute"}

OfferScope ==
    /\ workflowInfo \in {NoInfo, RunningInfo}
    /\ calls.failed = "none"
    /\ Len(events) > 1 => StateActivityEvent(events[Len(events)])

NextOffer == (Next /\ OfferScope') \/ Offer

SpecOffer == Init /\ [][NextOffer]_vars
\* ------------------------------------------------------------------------
\* Several requests.  The server calls the handler once per request; a
\* request gives way to another one only at an await (connect, describe,
\* fetchHistory), where its live locals are workflowInfo and what was
\* derived from it; from the answer of fetchHistory to the response the
\* handler runs without an await.  The first request runs alone; the later
\* ones run after each other or beside each other, and are given the
\* upstream answers of the first.
AwaitPoints == {"connect", "describe", "fetch"}

\* The requests of a run: the one that runs alone and the two that follow
Requests == {"alone", "one", "other"}

Started == Len(finished) + Len(parked) + 1

\* The running request shared its time with another one
RunningOverlapped ==
    \/ Len(parked) > 0
    \/ Len(finished) > 0 /\ finished[Len(finished)].overlapped

RunningOutcome ==
    [workflowInfo |-> workflowInfo, events |-> events, response |-> response,
     overlapped |-> RunningOverlapped]

Continuation == [pc |-> pc, workflowInfo |-> workflowInfo, calls |-> calls]

\* handleWorkflowShowRequest is entered
StartRequest ==
    /\ pc' = "connect"
    /\ workflowInfo' = NoInfo
    /\ calls' = HandlerCalls
    /\ response' = NoResponse

ResumeRequest(k) ==
    /\ pc' = k.pc
    /\ workflowInfo' = k.workflowInfo
    /\ calls' = k.calls
    /\ response' = NoResponse

\* A request is made after the running one was answered
Rerun ==
    /\ pc = "done" /\ Len(parked) = 0 /\ Started < Cardinality(Requests)
    /\ finished' = Append(finished, RunningOutcome)
    /\ StartRequest
    /\ UNCHANGED <<passVars, mapped, parked, pageVars>>

\* A request is made while the running one is at an await
Arrive ==
    /\ pc \in AwaitPoints /\ Len(parked) = 0
    /\ Len(finished) > 0 /\ Started < Cardinality(Requests)
    /\ parked' = <<Continuation>>
    /\ StartRequest
    /\ UNCHANGED <<passVars, mapped, finished, pageVars>>

\* The running request is at an await and the other one goes on
Switch ==
    /\ pc \in AwaitPoints /\ Len(parked) = 1
    /\ parked' = <<Continuation>>
    /\ ResumeRequest(parked[1])
    /\ UNCHANGED <<passVars, mapped, finished, pageVars>>

\* The running request was answered and the other one goes on
ResumeParked ==
    /\ pc = "done" /\ Len(parked) = 1
    /\ finished' = Append(finished, RunningOutcome)
    /\ parked' = <<>>
    /\ ResumeRequest(parked[1])
    /\ UNCHANGED <<passVars, mapped, pageVars>>

\* The requests are for workflows the handler reconstructs, with upstream
\* calls that answer and histories two events shorter than the longest; a
\* request after the first is given the workflow info and the history the
\* first was given.
ReplayScope ==
    /\ calls.failed = "none"
    /\ calls.workflowId \in {"none", "given"}
    /\ workflowInfo \in {NoInfo, RunningInfo}
    /\ Len(events) - 1 <= MaxEvents - 2
    /\ Len(finished) > 0 =>
          /\ workflowInfo \in {NoInfo, finished[1].workflowInfo}
          /\ pc \in {"loop", "done"} =>
                /\ Len(events) <= Len(finished[1].events)
                /\ events = SubSeq(finished[1].events, 1, Len(events))
                /\ pc = "done" => events = finished[1].events

NextRequests ==
    \/ Next /\ ReplayScope'
    \/ Rerun
    \/ Arrive
    \/ Switch
    \/ ResumeParked

SpecRequests == Init /\ [][NextRequests]_vars
\* ========================================================================
\* Properties

\* The raw event at raw index i, and the shapes of events
RawEvent(i) == events[i + 1]

IsScheduled(e, activityType) ==
    e.type = "ActivityTaskScheduled" /\ e.activityType = activityType

IsWaitUntil(e) == IsScheduled(e, "StateApiWaitUntil")

IsExecute(e) == IsScheduled(e, "StateApiExecute")

RawIndexes == 1..(Len(events) - 1)

TraceIndexes == 0..(Len(historyEvents) - 1)

\* Trace indexes of the wait records with this stateExecutionId that were
\* appended before the raw event i was read
WaitRecordsBefore(stateExecutionId, i) ==
    {k \in TraceIndexes :
        /\ At(historyEvents, k).eventType = "StateWaitUntil"
        /\ At(historyEvents, k).stateExecutionId = stateExecutionId
        /\ At(producedBy, k) < i}

\* The step reads one more raw event
ReadsEvent == pc = "loop" /\ Len(events') = Len(events) + 1

\* The pass is over and the request answered
Answered(code) == pc = "done" /\ response.httpStatus = code

\* ------------------------------------------------------------------------
\* The history of the wait-then-execute scenario
ChainHistory ==
    /\ Len(events) = 3
    /\ events[1].startStateId = "A"
    /\ IsWaitUntil(events[2])
    /\ events[2].stateId = "A" /\ events[2].stateExecutionId = "A-1"
    /\ IsExecute(events[3])
    /\ events[3].stateId = "A" /\ events[3].stateExecutionId = "A-1"

\* C1: for the history [WorkflowStarted(startStateId A), wait-scheduled(A,
\* A-1), execute-scheduled(A, A-1)] the request succeeds and its trace is a
\* StateWaitUntil record with origin -1 followed by a StateExecute record
\* with origin -1.
C1_ChainingYieldsWaitThenExecute ==
    (pc = "done" /\ ChainHistory) =>
        /\ response.httpStatus = 200
        /\ Len(response.historyEvents) = 2
        /\ response.historyEvents[1].eventType = "StateWaitUntil"
        /\ response.historyEvents[1].fromEventId = -1
        /\ response.historyEvents[2].eventType = "StateExecute"
        /\ response.historyEvents[2].fromEventId = -1

\* C2: every execute-scheduled event whose stateExecutionId has a wait record
\* appended earlier in the pass gets an execute record with the origin index
\* and the options of that wait record.
C2_ExecuteInheritsFromWait ==
    \A i \in RawIndexes :
        IsExecute(RawEvent(i)) =>
            \A w \in WaitRecordsBefore(RawEvent(i).stateExecutionId, i) :
                \E k \in TraceIndexes :
                    /\ At(producedBy, k) = i
                    /\ At(historyEvents, k).eventType = "StateExecute"
                    /\ At(historyEvents, k).fromEventId =
                           At(historyEvents, w).fromEventId
                    /\ At(historyEvents, k).stateOptions =
                           At(historyEvents, w).stateOptions

\* An execute-scheduled event, read at raw index i, whose stateExecutionId
\* has a wait record
LinkedExecute(e, i) ==
    IsExecute(e) /\ WaitRecordsBefore(e.stateExecutionId, i) # {}

\* C3: the step that reads an execute-scheduled event whose stateExecutionId
\* has a wait record appended earlier leaves the pending-origin map as it was.
C3_LinkedExecuteKeepsOrigins ==
    [][(ReadsEvent /\ LinkedExecute(events'[Len(events')], Len(events)))
          => fromStateLookup' = fromStateLookup]_vars

C3_Witness ==
    /\ Len(events) >= 2
    /\ LinkedExecute(events[Len(events)], Len(events) - 1)

\* C4: an execute-scheduled event takes the wait branch exactly when a wait
\* record with its stateExecutionId was appended earlier in the pass.
C4_WaitBranchIffRecordedWait ==
    \A i \in RawIndexes :
        IsExecute(RawEvent(i)) =>
            ((trail[i + 1].branch = "viaWait")
                <=> (WaitRecordsBefore(RawEvent(i).stateExecutionId, i) # {}))

\* A scheduled event, read at raw index i, that is to take its origin from
\* the pending-origin map
NeedsOrigin(e, i) ==
    \/ IsWaitUntil(e)
    \/ IsExecute(e) /\ WaitRecordsBefore(e.stateExecutionId, i) = {}

\* C5: the step that reads a wait-scheduled event, or an execute-scheduled
\* event without an earlier wait record, while the queue of its stateId is
\* absent appends no record and ends the request with the 400 error response.
C5_NoPendingOriginAborts ==
    [][(/\ ReadsEvent
        /\ NeedsOrigin(events'[Len(events')], Len(events))
        /\ events'[Len(events')].stateId \notin DOMAIN fromStateLookup)
          => /\ pc' = "done"
             /\ response'.httpStatus = 400
             /\ response'.errorType = "TEMPORAL_API_ERROR"
             /\ "historyEvents" \notin DOMAIN response'
             /\ historyEvents' = historyEvents
             /\ trail'[Len(trail')].threw]_vars

C5_Witness ==
    /\ Answered(400)
    /\ Len(events) >= 2
    /\ NeedsOrigin(events[Len(events)], Len(events) - 1)
    /\ events[Len(events)].stateId \notin DOMAIN fromStateLookup
    /\ \E i \in RawIndexes : IsWaitUntil(RawEvent(i)) /\ ~trail[i + 1].threw

\* ------------------------------------------------------------------------
\* The records of a stateId, their origins, and the scheduled events of a
\* stateId
RecordsOf(stateId) ==
    SelectSeq(historyEvents, LAMBDA r : r.stateId = stateId)

OriginsTaken(stateId) ==
    [n \in 1..Len(RecordsOf(stateId)) |->
        [index |-> RecordsOf(stateId)[n].fromEventId,
         option |-> RecordsOf(stateId)[n].stateOptions]]

IsPrefix(a, b) ==
    Len(a) <= Len(b) /\ \A n \in 1..Len(a) : a[n] = b[n]

ScheduledFor(stateId) ==
    {i \in RawIndexes :
        /\ IsWaitUntil(RawEvent(i)) \/ IsExecute(RawEvent(i))
        /\ RawEvent(i).stateId = stateId}

\* The pass was abandoned at an event that found no origin
TrackerAbort ==
    /\ pc = "done"
    /\ Len(trail) > 0
    /\ trail[Len(trail)].threw
    /\ trail[Len(trail)].branch = "tracker"

C7_Ordered ==
    /\ Len(producedBy) = Len(historyEvents)
    /\ \A k \in TraceIndexes :
        /\ At(producedBy, k) \in RawIndexes
        /\ At(historyEvents, k).firstAttemptStartedTimestamp
               = RawEvent(At(producedBy, k)).time
        /\ \A l \in TraceIndexes :
               k < l => At(producedBy, k) < At(producedBy, l)

C7_Stable ==
    \A k \in TraceIndexes :
        /\ k < Len(historyEvents')
        /\ At(historyEvents', k) = At(historyEvents, k)
        /\ At(producedBy', k) = At(producedBy, k)

SingleExecuteHistory ==
    /\ Len(events) = 2
    /\ events[1].startStateId = "A"
    /\ IsExecute(events[2])
    /\ events[2].stateId = "A" /\ events[2].stateExecutionId = "A-1"

\* C8: for the history [WorkflowStarted(startStateId A), execute-scheduled(A,
\* A-1)], of a workflow whose status the mapper maps, the trace is one
\* StateExecute record with stateId A, stateExecutionId A-1 and origin -1.
C8_SingleExecute ==
    (pc = "done" /\ SingleExecuteHistory /\ ~mapped.threw) =>
        /\ response.httpStatus = 200
        /\ Len(response.historyEvents) = 1
        /\ response.historyEvents[1].eventType = "StateExecute"
        /\ response.historyEvents[1].stateId = "A"
        /\ response.historyEvents[1].stateExecutionId = "A-1"
        /\ response.historyEvents[1].fromEventId = -1
        /\ response.historyEvents[1].stateOptions = events[1].stateOptions

C8_Witness == pc = "done" /\ SingleExecuteHistory /\ ~mapped.threw

\* The activity of record k has a completed or failed event in the history
ClosedInHistory(k) ==
    \E i \in RawIndexes :
        /\ RawEvent(i).type \in {"ActivityTaskCompleted", "ActivityTaskFailed"}
        /\ RawEvent(i).scheduledEventId = At(producedBy, k)

\* C9: in a successful response, every record whose activity has a completed
\* or failed event in the history carries a completion time.
C9_CompletionUpdatesRecord ==
    Answered(200) =>
        \A k \in TraceIndexes :
            ClosedInHistory(k) =>
                "completedTimestamp" \in DOMAIN At(response.historyEvents, k)

\* Raw indexes of the signal and workflow-closing events
MarkerIndexes == {i \in RawIndexes : RawEvent(i).type \in MarkerTypes}

Normalized(str) == replace(trim(toUpperCase(str)), StatusPrefix)

RecognisedStrings == {c.match : c \in StatusCases}

\* C11: the mapper throws for every string that, upper-cased, trimmed and
\* without the prefix, is not one of the strings of its switch, and returns
\* no label for it; it throws for "99".
C11_UnknownStatusThrows ==
    mapped.caller = "direct" =>
        /\ Normalized(mapped.arg) \notin RecognisedStrings
              => (mapped.threw /\ mapped.label = "none")
        /\ mapped.arg = <<"9", "9">> => mapped.threw

C11_Witness ==
    /\ mapped.caller = "direct"
    /\ mapped.arg = <<"9", "9">>
    /\ mapped.threw

\* C12: when the show response or an entry of the list response reports a
\* status label, the backend gave a status code and the label is the mapping
\* of that code.
C12_NoSilentDefault ==
    (/\ mapped.caller \in {"show", "list"}
     /\ ~mapped.threw
     /\ mapped.label # "undefined") =>
        /\ mapped.code.set
        /\ ~mapTemporalStatus(NumberToString(mapped.code.value)).threw
        /\ mapped.label =
               mapTemporalStatus(NumberToString(mapped.code.value)).label

\* ------------------------------------------------------------------------
\* The described workflow has no IwfWorkflowType search attribute
NotAnIwfWorkflow == workflowInfo.present /\ ~workflowInfo.iwfType

\* C15: once the describe call has answered with a workflow that has no
\* IwfWorkflowType attribute, the request is answered 400, the history was
\* not fetched, no event was read and the response has no trace.
C15_NotIwfStopsBeforeFetch ==
    NotAnIwfWorkflow =>
        /\ Answered(400)
        /\ response.errorType = "TEMPORAL_API_ERROR"
        /\ calls.fetchHistory = 0
        /\ events = <<>>
        /\ historyEvents = <<>>
        /\ "historyEvents" \notin DOMAIN response

C15_Witness ==
    /\ NotAnIwfWorkflow
    /\ Truthy(workflowInfo.status)
    /\ pc = "done"
    /\ calls.describe = 1

\* C16: every upstream call is made at most once by a request, and a
\* request one of whose upstream calls failed is answered 400 with errorType
\* TEMPORAL_API_ERROR, the message of the upstream error and no trace.
C16_UpstreamFailureAnswered ==
    /\ \A c \in UpstreamCalls : calls[c] <= 1
    /\ calls.failed # "none" =>
          /\ Answered(400)
          /\ response.errorType = "TEMPORAL_API_ERROR"
          /\ response.error = UpstreamError(calls.failed)
          /\ "historyEvents" \notin DOMAIN response

C16_Witness ==
    /\ calls.failed = "fetchHistory"
    /\ calls.connect = 1 /\ calls.describe = 1 /\ calls.fetchHistory = 1
    /\ Answered(400)

\* ------------------------------------------------------------------------
\* An event of the pass threw
SomeEventThrew == \E j \in 1..Len(trail) : trail[j].threw

\* C17: a request one of whose events threw is answered 400 with a response
\* that has no historyEvents; a response has historyEvents only when it is
\* the 200 response of a pass that read every event without a throw, and
\* then they are the whole trace.
C17_NoPartialTrace ==
    /\ SomeEventThrew =>
          /\ Answered(400)
          /\ "historyEvents" \notin DOMAIN response
    /\ "historyEvents" \in DOMAIN response =>
          /\ Answered(200)
          /\ ~SomeEventThrew
          /\ Len(trail) = Len(events)
          /\ response.historyEvents = historyEvents

\* The pass threw on an undecodable event after it had appended a record
C17_Witness ==
    /\ Answered(400)
    /\ Len(trail) > 0
    /\ trail[Len(trail)].threw
    /\ trail[Len(trail)].branch = "decode"
    /\ Len(historyEvents) >= 1

Takes(stateId) ==
    /\ ReadsEvent
    /\ NeedsOrigin(events'[Len(events')], Len(events))
    /\ events'[Len(events')].stateId = stateId

C19_NoEmptyQueue ==
    \A s \in DOMAIN fromStateLookup : Len(fromStateLookup[s]) > 0

C19_LastTakeDeletes ==
    \A s \in StateIds :
        (Takes(s) /\ s \in DOMAIN fromStateLookup
                  /\ Len(fromStateLookup[s]) = 1)
            => s \notin DOMAIN fromStateLookup'

C19_AbsentTakeThrows ==
    \A s \in StateIds :
        (Takes(s) /\ s \notin DOMAIN fromStateLookup)
            => /\ pc' = "done"
               /\ response' = ErrorResponse(TypeErrorUndefined)
               /\ historyEvents' = historyEvents
               /\ fromStateLookup' = fromStateLookup

\* C19: no stateId of the pending-origin map has an empty queue; the take of
\* the only origin of a stateId removes the stateId from the map; and a take
\* on a stateId that is not in the map ends the request with one and the
\* same error response, whether the stateId had origins before or never.
C19_EmptyQueueIsAbsent ==
    /\ []C19_NoEmptyQueue
    /\ [][C19_LastTakeDeletes]_vars
    /\ [][C19_AbsentTakeThrows]_vars

\* A take on a stateId whose only origin was taken earlier
C19_Witness ==
    /\ TrackerAbort
    /\ Len(offered[events[Len(events)].stateId]) = 1
    /\ Len(RecordsOf(events[Len(events)].stateId)) = 1

\* The origins of a stateId that are pending
Pending(stateId) ==
    IF stateId \in DOMAIN fromStateLookup THEN fromStateLookup[stateId] ELSE <<>>

Outcomes ==
    finished \o (IF pc = "done" THEN <<RunningOutcome>> ELSE <<>>)

\* Request n was given the workflow info and the history of the first one
SameInputs(n) ==
    /\ Outcomes[n].workflowInfo = Outcomes[1].workflowInfo
    /\ Outcomes[n].events = Outcomes[1].events

\* C13: a request that runs after another one was answered, with no request
\* beside it, and that is given the same workflow info and the same history
\* as the first request, has the response of the first request: the same
\* trace, or the same error.
C13_RerunSameResponse ==
    \A n \in 2..Len(Outcomes) :
        (~Outcomes[n].overlapped /\ SameInputs(n))
            => Outcomes[n].response = Outcomes[1].response

\* Three requests in a row, answered with a trace of one record
C13_Witness ==
    /\ Len(Outcomes) = 3
    /\ \A n \in 2..3 : ~Outcomes[n].overlapped /\ SameInputs(n)
    /\ Outcomes[3].response.httpStatus = 200
    /\ Len(Outcomes[3].response.historyEvents) = 1

\* Requests beside each other have the response of the request that ran alone
C14_SameAsAlone ==
    \A n \in 2..Len(Outcomes) :
        (Outcomes[n].overlapped /\ SameInputs(n))
            => Outcomes[n].response = Outcomes[1].response

\* A request that is not in its pass has none of the locals of the pass:
\* the step of another request changes no map, queue or trace, and the pass
\* starts from maps and a trace that hold nothing but the seed
C14_OwnState ==
    /\ (Rerun \/ Arrive \/ Switch \/ ResumeParked) => UNCHANGED passVars
    /\ (pc = "fetch" /\ pc' = "loop") =>
          /\ historyEvents' = <<>>
          /\ historyActivityIdLookup' = NewMap
          /\ stateExecutionIdToWaitUntilIndex' = NewMap
          /\ fromStateLookup' =
                SeedLookup(events'[1].startStateId, events'[1].stateOptions)

\* C14: a request that ran beside another one, given the workflow info and
\* the history of the request that ran alone, has the response of that
\* request; a request gives way only at an await, where no other request's
\* step changes a queue, a map or the trace, and every pass starts from
\* fresh maps and an empty trace.
C14_Isolation == []C14_SameAsAlone /\ [][C14_OwnState]_vars

\* Two requests beside each other, the one answered while the other waited
\* for its history, both abandoned by the tracker after a record
C14_Witness ==
    /\ Len(Outcomes) = 3
    /\ \A n \in 2..3 : Outcomes[n].overlapped /\ SameInputs(n)
    /\ Outcomes[3].response.httpStatus = 400
    /\ TrackerAbort
    /\ Len(historyEvents) = 1

\* ------------------------------------------------------------------------
\* The record the step appended, and the trace before it
LastRecord == historyEvents[Len(historyEvents)]

AppendsOneRecord ==
    /\ Len(historyEvents') = Len(historyEvents) + 1
    /\ SubSeq(historyEvents', 1, Len(historyEvents)) = historyEvents

\* The step leaves the trace, the pending origins and the two maps alone
\* and the pass goes on
LeavesPassState ==
    /\ historyEvents' = historyEvents
    /\ fromStateLookup' = fromStateLookup
    /\ historyActivityIdLookup' = historyActivityIdLookup
    /\ stateExecutionIdToWaitUntilIndex' = stateExecutionIdToWaitUntilIndex
    /\ pc' = "loop"

\* C21: the step that reads a wait-scheduled event whose stateId has pending
\* origins, whatever the map of stateExecutionIds holds, removes the first
\* origin of that stateId and no other, and appends one StateWaitUntil record
\* with the index and the options of that origin and the stateId,
\* stateExecutionId, input and time of the event.
C21_WaitTakesFromTracker ==
    [][\A s \in StateIds :
          (/\ ReadsEvent
           /\ IsWaitUntil(events'[Len(events')])
           /\ events'[Len(events')].stateId = s
           /\ s \in DOMAIN fromStateLookup)
             => /\ Pending(s)' = Tail(fromStateLookup[s])
                /\ \A t \in StateIds \ {s} : Pending(t)' = Pending(t)
                /\ AppendsOneRecord
                /\ LastRecord'.eventType = "StateWaitUntil"
                /\ LastRecord'.fromEventId = Head(fromStateLookup[s]).index
                /\ LastRecord'.stateOptions = Head(fromStateLookup[s]).option
                /\ LastRecord'.stateId = s
                /\ LastRecord'.stateExecutionId =
                       events'[Len(events')].stateExecutionId
                /\ LastRecord'.input = events'[Len(events')].input
                /\ LastRecord'.firstAttemptStartedTimestamp =
                       events'[Len(events')].time]_vars

\* A wait-scheduled event of state B took the seed, with options, after
\* other events
C21_Witness ==
    /\ Len(historyEvents) = 1
    /\ LastRecord.eventType = "StateWaitUntil"
    /\ LastRecord.stateId = "B"
    /\ LastRecord.stateOptions = "o1"
    /\ At(producedBy, 0) >= 2
    /\ "B" \notin DOMAIN fromStateLookup

\* The activity a completed or failed event closes has no entry in the
\* activity-id map
Uncorrelated(e) ==
    /\ e.type \in {"ActivityTaskCompleted", "ActivityTaskFailed"}
    /\ ~MapHas(historyActivityIdLookup, e.scheduledEventId)

C22_DroppedEventKeepsState ==
    (ReadsEvent /\ Uncorrelated(events'[Len(events')])) => LeavesPassState

\* The pass read a completed or failed event and nothing threw
C22_StillSucceeds ==
    (/\ pc = "done"
     /\ \E i \in RawIndexes :
           RawEvent(i).type \in {"ActivityTaskCompleted", "ActivityTaskFailed"}
     /\ ~SomeEventThrew
     /\ ~mapped.threw) => Answered(200)

\* C22: the step that reads a completed or failed event of an activity
\* without an entry in the activity-id map changes neither the trace nor a
\* map and the pass goes on; a pass with such events in which no event throws
\* is answered 200.
C22_UncorrelatedCompletionDropped ==
    /\ [][C22_DroppedEventKeepsState]_vars
    /\ []C22_StillSucceeds

\* A completed event of an activity of another type and a failed event of an
\* execute activity, in a request answered 200
C22_Witness ==
    /\ Answered(200)
    /\ \E i, j \in RawIndexes :
          /\ RawEvent(i).type = "ActivityTaskCompleted"
          /\ IsScheduled(RawEvent(RawEvent(i).scheduledEventId), "Other")
          /\ RawEvent(j).type = "ActivityTaskFailed"
          /\ IsExecute(RawEvent(RawEvent(j).scheduledEventId))

\* C23: the step that reads a scheduled event of an activity type that is
\* neither StateApiWaitUntil nor StateApiExecute, and whose input decodes,
\* appends no record, takes no origin, changes no map and lets the pass go
\* on without an error.
C23_OtherScheduledIgnored ==
    [][(ReadsEvent /\ IsScheduled(events'[Len(events')], "Other"))
          => /\ LeavesPassState
             /\ ~trail'[Len(trail')].threw
             /\ response' = response]_vars

C23_Witness ==
    /\ Answered(200)
    /\ Len(events) = 4
    /\ Len(response.historyEvents) = 1
    /\ At(producedBy, 0) = 2
    /\ IsScheduled(RawEvent(1), "Other")
    /\ IsScheduled(RawEvent(3), "Other")

\* The origin index of the record at index k of a trace is -1 or the index
\* of a record before it
BackReference(trace, k) ==
    \/ At(trace, k).fromEventId = StartIndex
    \/ At(trace, k).fromEventId \in 0..(k - 1)

BeforeFirstEvent == Len(events) = 1

\* fromStateLookup.set(startStateId, [{index: -1, option: stateOptions}])
SeededOnly ==
    /\ DOMAIN fromStateLookup = {events[1].startStateId}
    /\ fromStateLookup[events[1].startStateId] =
           <<[index |-> -1, option |-> events[1].stateOptions]>>

\* The events read so far were read one by one in the order of their raw
\* indexes, the event at raw index 0 by the seeding only
ReadInOrder ==
    /\ Len(events) >= 1 =>
          /\ Len(trail) = Len(events)
          /\ trail[1].branch = "start"
          /\ events[1].type = "WorkflowExecutionStarted"
    /\ \A j \in 2..Len(trail) : trail[j].branch # "start"
    /\ \A i \in RawIndexes : RawEvent(i).time = i
    /\ \A k \in TraceIndexes :
          /\ At(producedBy, k) \in RawIndexes
          /\ k >= 1 => At(producedBy, k - 1) < At(producedBy, k)

\* A step of the loop reads the next event, once, or ends the pass
ReadsNextOnce ==
    pc = "loop" =>
       \/ events' = events /\ trail' = trail /\ pc' = "done"
       \/ /\ Len(events') = Len(events) + 1
          /\ SubSeq(events', 1, Len(events)) = events
          /\ Len(trail') = Len(trail) + 1
          /\ SubSeq(trail', 1, Len(trail)) = trail

\* C25: when the history is fetched and no event has been dispatched, the
\* pending-origin map has exactly one key, the startStateId, with the
\* one-element queue of index -1 and the stateOptions of the start payload,
\* and the trace is empty; the event at raw index 0 is not dispatched and
\* produces no record; every step of the loop dispatches the next event,
\* once, in the order of the raw indexes.
C25_SeedThenForwardPass ==
    /\ [](BeforeFirstEvent => SeededOnly /\ historyEvents = <<>>)
    /\ []ReadInOrder
    /\ [][ReadsNextOnce]_vars

\* The seed of state B with options, then four events dispatched and a 200
C25_Witness ==
    /\ Answered(200)
    /\ Len(events) = MaxEvents + 1
    /\ events[1].startStateId = "B"
    /\ events[1].stateOptions = "o1"
    /\ Len(response.historyEvents) = 1
    /\ At(producedBy, 0) = MaxEvents

\* ------------------------------------------------------------------------
\* The WorkflowExecutionStatus enumeration of the backend: the name of the
\* status with code n, and the label of the interface for it
WorkflowExecutionStatus ==
    <<<<"R", "U", "N", "N", "I", "N", "G">>,
      <<"C", "O", "M", "P", "L", "E", "T", "E", "D">>,
      <<"F", "A", "I", "L", "E", "D">>,
      <<"C", "A", "N", "C", "E", "L", "E", "D">>,
      <<"T", "E", "R", "M", "I", "N", "A", "T", "E", "D">>,
      <<"C", "O", "N", "T", "I", "N", "U", "E", "D", "_", "A", "S", "_",
        "N", "E", "W">>,
      <<"T", "I", "M", "E", "D", "_", "O", "U", "T">>>>

StatusLabels ==
    <<"RUNNING", "COMPLETED", "FAILED", "CANCELED", "TERMINATED",
      "CONTINUED_AS_NEW", "TIMEOUT">>

\* The two strings have the same letters, in whatever case
SameLetters(a, b) == toLowerCase(a) = toLowerCase(b)

\* The string is a form of the status with code n: the code, the name, or
\* the name with the prefix, in any letter case
IsFormOf(str, n) ==
    \/ str = NumberToString(n)
    \/ SameLetters(str, WorkflowExecutionStatus[n])
    \/ SameLetters(str, StatusPrefix \o WorkflowExecutionStatus[n])

\* C26: a label the mapper returns is one of RUNNING, COMPLETED, FAILED,
\* CANCELED, TERMINATED, CONTINUED_AS_NEW and TIMEOUT, and for each of the
\* codes 1..7 the mapper returns the label of that code for the code, for the
\* name of the status and for the name with the WORKFLOW_EXECUTION_STATUS_
\* prefix, in any letter case.
C26_SevenLabelsAllForms ==
    mapped.caller = "direct" =>
        /\ ~mapped.threw =>
              \E n \in 1..Len(StatusLabels) : mapped.label = StatusLabels[n]
        /\ \A n \in 1..Len(StatusLabels) :
              IsFormOf(mapped.arg, n) =>
                  ~mapped.threw /\ mapped.label = StatusLabels[n]

\* The name TIMED_OUT with the prefix, in mixed case, gave TIMEOUT
C26_Witness ==
    /\ mapped.caller = "direct"
    /\ mapped.arg = AlternateCase(StatusPrefix \o WorkflowExecutionStatus[7])
    /\ mapped.arg # toUpperCase(mapped.arg)
    /\ mapped.arg # toLowerCase(mapped.arg)
    /\ ~mapped.threw
    /\ mapped.label = "TIMEOUT"

\* The show route built its 200 response: the status expression did not throw
ShowResponseBuilt == mapped.caller = "show" /\ ~mapped.threw

\* C27: the status of a 200 response of the show route is absent or one of
\* the seven labels, and it is absent exactly when the status code of the
\* described workflow is missing or zero; the 200 response of a request
\* carries the status so computed.
C27_StatusAbsentIffNoCode ==
    /\ ShowResponseBuilt =>
          /\ \/ mapped.label = "undefined"
             \/ \E n \in 1..Len(StatusLabels) : mapped.label = StatusLabels[n]
          /\ mapped.label = "undefined"
                <=> (~mapped.code.set \/ mapped.code.value = 0)
    /\ Answered(200) => ShowResponseBuilt /\ response.status = mapped.label

\* A workflow with the status code 0 got a 200 response without a status
C27_Witness ==
    /\ Answered(200)
    /\ response.status = "undefined"
    /\ mapped.code = Number(0)
    /\ mapped.label = "undefined"

\* Trace indexes of the records whose event took its origin from the
\* pending-origin map, and raw indexes of the events that are to take one
TrackerRecords ==
    {k \in TraceIndexes :
        NeedsOrigin(RawEvent(At(producedBy, k)), At(producedBy, k))}

TrackerEvents == {i \in RawIndexes : NeedsOrigin(RawEvent(i), i)}

WithoutWorkflowId == calls.workflowId = "missing"

\* The body of the POST request could not be read as an object: it holds no
\* workflowId either
BodyUnread == calls.workflowId = "unparsed"

NoBackendCall ==
    /\ calls.connect = 0
    /\ calls.describe = 0
    /\ calls.fetchHistory = 0
    /\ workflowInfo = NoInfo
    /\ events = <<>>

\* C30 as stated: every GET or POST request without a workflowId is answered
\* with a 400 response and no backend call is made for it.
C30_EveryRequestWithoutId ==
    (WithoutWorkflowId \/ BodyUnread) => Answered(400) /\ NoBackendCall

\* C30: a GET request without the workflowId parameter, or a POST request
\* whose body was read and has no workflowId, is answered with the 400
\* response that names the missing parameter or field; a POST request whose
\* body cannot be read is answered with the 500 response; in both cases no
\* connection is opened, no workflow described and no history fetched.
C30_MissingIdRejectedFirst ==
    /\ WithoutWorkflowId =>
          /\ Answered(400)
          /\ response \in {MissingParameterResponse, MissingFieldResponse}
          /\ NoBackendCall
    /\ BodyUnread =>
          /\ Answered(500)
          /\ response = PostFailedResponse
          /\ NoBackendCall

\* A POST request without the field was answered
C30_Witness ==
    /\ WithoutWorkflowId
    /\ response = MissingFieldResponse
    /\ pc = "done"

\* ------------------------------------------------------------------------
\* A request that is served: the route function is called for it, every
\* promise the handler awaits is resolved or rejected and the continuation
\* runs, and the history fetched is finite, so a step that can be taken is
\* taken.
SpecLive == Init /\ [][Next]_vars /\ WF_vars(Next)

HttpStatuses == {200, 400, 500}

\* The request has its response exactly when it is over, and the response is
\* a 200 with the trace of a pass that read every event, or an error
OneResponseWhenDone ==
    /\ pc = "done" <=> response # NoResponse
    /\ pc = "done" => response.httpStatus \in HttpStatuses
    /\ Answered(200) =>
          /\ response.historyEvents = historyEvents
          /\ Len(trail) = Len(events)
          /\ ~SomeEventThrew
    /\ (pc = "done" /\ response.httpStatus # 200) =>
          "historyEvents" \notin DOMAIN response

\* The response is given once
RespondsOnce ==
    response' # response => response = NoResponse /\ pc # "done" /\ pc' = "done"

\* C29: every request whose awaited calls settle ends, with one response: the
\* response is given in the step that ends the request and never changes; it
\* is the 200 response with the trace, after one step for each event at raw
\* index >= 1, or a 400 or 500 error response.
C29_TerminatesWithOneResponse ==
    /\ <>(pc = "done")
    /\ []OneResponseWhenDone
    /\ [][RespondsOnce]_vars

\* The request ended with the 200 response after the longest history
C29_Witness ==
    /\ Answered(200)
    /\ Len(events) = MaxEvents + 1
    /\ Len(trail) = Len(events)
    /\ Len(response.historyEvents) = 1

\* ------------------------------------------------------------------------
\* The label of the status with code n, as the string a caller would pass
LabelCharacters ==
    [n \in 1..Len(StatusLabels) |->
        IF StatusLabels[n] = "TIMEOUT"
        THEN <<"T", "I", "M", "E", "O", "U", "T">>
        ELSE WorkflowExecutionStatus[n]]

\* C31: for every label the mapper can return, the mapper applied to that
\* label returns, without an error, the same label.
C31_IdempotentOnLabels ==
    mapped.caller = "direct" =>
        \A n \in 1..Len(StatusLabels) :
            mapped.arg = LabelCharacters[n] =>
                ~mapped.threw /\ mapped.label = StatusLabels[n]

\* ------------------------------------------------------------------------
\* The search page (WorkflowSearchPage).  A handler runs with the state of
\* the render it was created in; the state updates it makes are applied
\* together when it returns.  The part of fetchWorkflows after its await
\* runs when the answer of the search request arrives.
MaxFetches == 3

PageTokens == {"", "t1", "t2"}

PageSizes == {20, 50}

\* The page parameter of the URL, as parseInt gives it
UrlPages == 0..3

\* The variables of the show route, which the search page leaves alone
showVars == <<pc, workflowInfo, calls, response, passVars, mapped, parked,
              finished>>

\* initialQueryParams: page = (!token && rawPage > 1) ? 1 : rawPage
initialQueryParams(rawPage, size, token) ==
    [page |-> IF token = "" /\ rawPage > 1 THEN 1 ELSE rawPage,
     size |-> size,
     token |-> token]

\* The initial values of the useState calls
Open(params) ==
    /\ currentPage = params.page
    /\ pageSize = params.size
    /\ nextPageToken = params.token
    /\ hasMoreResults = FALSE
    /\ pageHistory = [i \in 1..params.page |->
                         IF params.page > 1 /\ params.token # "" /\ i = params.page
                         THEN params.token ELSE ""]
    /\ results = NoResults
    /\ loading = FALSE
    /\ error = ""
    /\ inFlight = {}
    /\ issued = <<>>
    /\ handled = "none"

InitSearch ==
    /\ HandlerIdle
    /\ \E rawPage \in UrlPages, size \in PageSizes, token \in PageTokens :
          Open(initialQueryParams(rawPage, size, token))

\* Variant: the error message of the search before stays on the page
ErrorKept == error

\* setError('') at the start of fetchWorkflows
ErrorCleared == ""

\* fetchWorkflows up to its await, called by a handler that has set the page,
\* the history and the page size: loading and the error message are set, a
\* search without a token from a page other than 1 (the page of the render,
\* currentPage || 1) goes back to page 1, and the request is sent.
fetchWorkflows(handler, pageToken, page, history, size, newPageSize) ==
    LET pageNum == IF currentPage = 0 THEN 1 ELSE currentPage
        reset == pageToken = "" /\ pageNum # 1
    IN  /\ Len(issued) < MaxFetches
        /\ loading' = TRUE
        /\ error' = ErrorCleared
        /\ currentPage' = IF reset THEN 1 ELSE page
        /\ pageHistory' = IF reset THEN <<"">> ELSE history
        /\ pageSize' = size
        /\ issued' = Append(issued, [handler |-> handler,
                                     token |-> pageToken,
                                     fromPage |-> currentPage,
                                     page |-> IF reset THEN 1 ELSE page,
                                     newPageSize |-> newPageSize,
                                     pageSize |-> pageSize])
        /\ inFlight' = inFlight \cup {Len(issued) + 1}
        /\ handled' = handler
        /\ UNCHANGED <<results, nextPageToken, hasMoreResults, showVars>>

\* A handler that returns at its first line
Returns(handler) ==
    /\ handled' = handler
    /\ UNCHANGED <<currentPage, pageSize, nextPageToken, hasMoreResults,
                   pageHistory, results, loading, error, inFlight, issued,
                   showVars>>

\* The effect that runs once when the page is mounted
Mount ==
    /\ issued = <<>>
    /\ fetchWorkflows("mount", nextPageToken, currentPage, pageHistory,
                      pageSize, pageSize)

Mounted == issued # <<>>

\* The list and its pagination controls are rendered when loading is false
ListShown == Mounted /\ ~loading

handleSearch ==
    /\ Mounted
    /\ fetchWorkflows("handleSearch", "", currentPage, pageHistory, pageSize, 0)

\* setTimeout(() => fetchWorkflows(updatedQuery), 50)
applyFilter ==
    /\ Mounted
    /\ fetchWorkflows("applyFilter", "", currentPage, pageHistory, pageSize, 0)

goToNextPage ==
    /\ ListShown
    /\ IF ~hasMoreResults \/ nextPageToken = ""
       THEN Returns("goToNextPage")
       ELSE fetchWorkflows("goToNextPage", nextPageToken, currentPage + 1,
                           IF currentPage >= Len(pageHistory)
                           THEN Append(pageHistory, nextPageToken)
                           ELSE [pageHistory EXCEPT ![currentPage + 1] =
                                                        nextPageToken],
                           pageSize, 0)

goToPrevPage ==
    /\ ListShown
    /\ IF currentPage <= 1
       THEN Returns("goToPrevPage")
       ELSE fetchWorkflows("goToPrevPage",
                           IF currentPage - 1 \in DOMAIN pageHistory
                           THEN pageHistory[currentPage - 1] ELSE "",
                           currentPage - 1, pageHistory, pageSize, 0)

goToFirstPage ==
    /\ ListShown
    /\ IF currentPage = 1
       THEN Returns("goToFirstPage")
       ELSE fetchWorkflows("goToFirstPage", "", 1, pageHistory, pageSize, 0)

changePageSize ==
    /\ ListShown
    /\ \E newSize \in PageSizes :
          IF newSize = pageSize
          THEN Returns("changePageSize")
          ELSE fetchWorkflows("changePageSize", "", 1, <<"">>, newSize, newSize)

\* The answer of a search request arrives and is OK
SearchAnswered ==
    \E r \in inFlight, token \in PageTokens :
        /\ results' = [of |-> r, entries |-> "some"]
        /\ nextPageToken' = token
        /\ hasMoreResults' = (token # "")
        /\ pageSize' = IF issued[r].newPageSize # 0
                          /\ issued[r].newPageSize # issued[r].pageSize
                       THEN issued[r].newPageSize ELSE pageSize
        /\ loading' = FALSE
        /\ inFlight' = inFlight \ {r}
        /\ handled' = "answered"
        /\ UNCHANGED <<currentPage, pageHistory, error, issued, showVars>>

\* Variant: the entries of the search before stay on the page
FailedResultsKept(r) == results

\* setResults([]) of the catch block
FailedResults(r) == [of |-> r, entries |-> "none"]

\* The answer is not OK, or fetch or response.json() throws: the catch block
\* and the finally block
SearchFailed ==
    \E r \in inFlight :
        /\ error' = "Error processing request"
        /\ results' = FailedResults(r)
        /\ nextPageToken' = ""
        /\ hasMoreResults' = FALSE
        /\ loading' = FALSE
        /\ inFlight' = inFlight \ {r}
        /\ handled' = "failed"
        /\ UNCHANGED <<currentPage, pageSize, pageHistory, issued, showVars>>

NextSearch ==
    \/ Mount
    \/ handleSearch
    \/ applyFilter
    \/ goToNextPage
    \/ goToPrevPage
    \/ goToFirstPage
    \/ changePageSize
    \/ SearchAnswered
    \/ SearchFailed

SpecSearch == InitSearch /\ [][NextSearch]_vars

\* ------------------------------------------------------------------------
\* The step is a call of this handler of the search page
Calls(handler) == handled' = handler /\ (issued' # issued \/ handled # handler)

\* The step changes nothing the page shows or keeps
PageUntouched ==
    UNCHANGED <<currentPage, pageSize, nextPageToken, hasMoreResults,
                pageHistory, results, loading, error, inFlight, issued>>

\* C32: currentPage is at least 1 in every state of the search page, whatever
\* the parameters of the URL it was opened with and whatever handlers ran;
\* goToPrevPage and goToFirstPage change nothing on page 1, and goToNextPage
\* changes nothing unless hasMoreResults is true and nextPageToken is not
\* empty.
C32_PageAtLeastOne ==
    /\ [](currentPage >= 1)
    /\ [][/\ (Calls("goToPrevPage") /\ currentPage = 1) => PageUntouched
          /\ (Calls("goToFirstPage") /\ currentPage = 1) => PageUntouched
          /\ (Calls("goToNextPage") /\ ~(hasMoreResults /\ nextPageToken # ""))
                => PageUntouched]_vars

\* The call k of fetchWorkflows was made by goToPrevPage, and the call before
\* it by goToNextPage from a page p >= 1
RoundTrip(k) ==
    /\ k \in 3..Len(issued)
    /\ issued[k].handler = "goToPrevPage"
    /\ issued[k - 1].handler = "goToNextPage"
    /\ issued[k - 1].fromPage >= 1

\* C33: when goToPrevPage follows goToNextPage from page p, the page is p
\* again, and stays p when both requests are answered, and the request of
\* goToPrevPage carries the token of the request that had produced page p,
\* the last one sent before goToNextPage.
C33_NextThenPrev ==
    \A k \in 1..Len(issued) :
        RoundTrip(k) =>
            /\ issued[k].page = issued[k - 1].fromPage
            /\ k = Len(issued) => currentPage = issued[k - 1].fromPage
            /\ issued[k].token = issued[k - 2].token

\* C34: when every search request is answered, the entries shown are those
\* of the search made last; and loading is true while a request is in flight.
C34_LastSearchWins ==
    /\ (Len(issued) >= 2 /\ inFlight = {}) => results.of = Len(issued)
    /\ inFlight # {} => loading

\* The state fetchWorkflows leaves when its request failed
AfterFailure ==
    /\ error # ""
    /\ results.entries = "none"
    /\ nextPageToken = ""
    /\ hasMoreResults = FALSE
    /\ loading = FALSE

\* C35: when a search request fails, the page is left with the error message
\* set, no results, an empty nextPageToken, hasMoreResults false and loading
\* false; a search started after that has cleared the error message when its
\* request is sent.
C35_FailureThenCleared ==
    /\ [](handled = "failed" => AfterFailure)
    /\ [][issued' # issued =>
            /\ error' = ""
            /\ Len(issued') \in inFlight'
            /\ loading']_vars

C35_Witness ==
    /\ handled = "handleSearch"
    /\ Len(issued) >= 2
    /\ results = [of |-> Len(issued) - 1, entries |-> "none"]
    /\ inFlight = {Len(issued)}
    /\ error = ""
    /\ loading
====
